---- MODULE Spec2Model ----
(***************************************************************************)
(* A model of REVideoGen: the per-room pipeline of main.py                 *)
(* (RealEstateVideoPipeline.process_room) and the retry / polling state    *)
(* machine of heygen_integration.py (HeygenIntegration.create_video and    *)
(* _wait_for_completion), with the text helpers they use.                  *)
(*                                                                         *)
(* Texts.  A Python str is modelled by what split(), join(), strip() and   *)
(* len() see of it: the sequence of its whitespace-separated words (each a *)
(* string), the number of whitespace characters at its two ends (edge) and *)
(* the number of interior whitespace characters beyond one per gap         *)
(* (inner).  Optional values are "None" for identifiers and <<>> / <<x>>   *)
(* for dictionaries.                                                       *)
(*                                                                         *)
(* Time.  time.time() - start_time is the variable elapsed, in seconds; it *)
(* advances by the sleeps of the poll loop (requests take no time).        *)
(*                                                                         *)
(* Specifications.  Spec: one call of process_room, or of create_video by  *)
(* a script.  SpecWords: the same, for every description length.           *)
(* SpecMain: main(), the for loop over its rooms.  SpecHelper: one call of *)
(* a selector or of the description generator with every argument of       *)
(* HelperCalls.  SpecPoll: _wait_for_completion called on its own, with    *)
(* the fairness that every request returns and every sleep ends.           *)
(***************************************************************************)
EXTENDS Integers, Sequences, FiniteSets, TLC

(* ------------------------------ bounds -------------------------------- *)

\* Largest word count of a description handed directly to create_video.
MaxWords == 102

\* Largest max_retries a direct caller passes.
MaxRetries == 3

\* The longest list of renditions, of voices and of features a helper is
\* called with on its own, and the most words the text model answers with.
MaxFiles == 3
MaxVoices == 3
MaxFeatures == 3
MaxOutWords == 5

\* The largest timeout _wait_for_completion is called with on its own.
MaxPollTimeout == 30

(* ------------------------- program constants -------------------------- *)

words_per_retry      == 50
default_max_retries  == 3
default_timeout      == 300
timeout_step         == 60
timeout_floor        == 180
sleep_processing     == 10
sleep_other          == 5
min_description_len  == 20

None == "None"

(* ------------------------------- texts -------------------------------- *)

Max(a, b) == IF a >= b THEN a ELSE b
Min(a, b) == IF a <= b THEN a ELSE b

\* A text with single spaces between its words and none at its ends.
Text(ws) == [words |-> ws, edge |-> 0, inner |-> 0]

\* str.split(): the whitespace-separated words.
Split(text) == text.words

\* words[:k] of Python: a negative k counts from the end.
SliceTo(ws, k) ==
    IF k >= 0 THEN SubSeq(ws, 1, Min(k, Len(ws)))
    ELSE SubSeq(ws, 1, Max(0, Len(ws) + k))

RECURSIVE SumLen(_)
SumLen(ws) == IF ws = <<>> THEN 0 ELSE Len(Head(ws)) + SumLen(Tail(ws))

\* len(text): the characters of the words, one per gap, and the extra whitespace.
CharLen(text) ==
    SumLen(text.words) + Max(0, Len(text.words) - 1) + text.edge + text.inner

\* ' '.join(ws) + suffix: the suffix ends up glued to the last word, or is a
\* word of its own when ws is empty.
JoinPlus(ws, suffix) ==
    IF ws = <<>> THEN Text(<<suffix>>)
    ELSE Text([i \in 1..Len(ws) |-> IF i = Len(ws) THEN ws[i] \o suffix ELSE ws[i]])

_truncate_text(text, max_words) ==
    IF Len(Split(text)) <= max_words THEN text
    ELSE JoinPlus(SliceTo(Split(text), max_words), "...")

\* f"[{len(current_description)} chars]"
CharsTag(text) == Text(<<"[" \o ToString(CharLen(text)), "chars]">>)

\* sep.join(ws) as one string.
RECURSIVE JoinStr(_, _)
JoinStr(ws, sep) ==
    IF ws = <<>> THEN ""
    ELSE IF Len(ws) = 1 THEN ws[1]
    ELSE ws[1] \o sep \o JoinStr(Tail(ws), sep)

\* Python truthiness of an optional identifier.
Truthy(v) == v # None /\ v # ""

(* ------------------------- inputs of a call --------------------------- *)

\* A description of n distinct words, as handed to create_video by a caller.
Desc(n) == Text([i \in 1..n |-> "w" \o ToString(i)])

\* A text that is its own debug tag: len("[9 chars]") = 9.
TagDesc == Text(<<"[9", "chars]">>)

\* Every description of up to MaxWords words.
AllDescriptions == {Desc(n) : n \in 0..MaxWords} \cup {TagDesc}

\* The descriptions of the direct calls of Spec: empty, shorter and longer than
\* words_per_retry, longer than twice that, and the self-tagging one.
SomeDescriptions == {Desc(0), Desc(30), Desc(60), Desc(MaxWords), TagDesc}

\* The initial_timeout values of the direct calls of Spec: none at all, below
\* the floor, and the default.
SomeTimeouts == {0, 2 * timeout_step, default_timeout}

\* main(), lines 103-112: the list of rooms.
MainRooms ==
    << [type |-> <<"living", "room">>, features |-> <<"spacious", "modern", "bright">>],
       [type |-> <<"garden">>, features |-> <<"private", "landscaped", "peaceful">>] >>

\* The rooms of main().
Rooms ==
    { [type |-> <<"living", "room">>, features |-> <<"spacious", "modern", "bright">>],
      [type |-> <<"garden">>, features |-> <<"private", "landscaped", "peaceful">>] }

(* --------------------- video_scraper.VideoScraper --------------------- *)

Rendition(w, h, link) == [width |-> w, height |-> h, link |-> link]

\* Line 64: the sort key.
Area(x) == x.width * x.height

\* Mutant of SortedDesc: a rendition goes before the earlier ones of its area
\* (the ascending sort, reversed).
RECURSIVE SortedDescReversed(_)
SortedDescReversed(files) ==
    IF files = <<>> THEN <<>>
    ELSE LET rest == SortedDescReversed(SubSeq(files, 1, Len(files) - 1))
             x    == files[Len(files)]
             k    == Cardinality({ i \in 1..Len(rest) : Area(rest[i]) > Area(x) })
         IN  SubSeq(rest, 1, k) \o <<x>> \o SubSeq(rest, k + 1, Len(rest))

\* Lines 62-66: sorted(files, key=Area, reverse=True). The sort is stable, also
\* with reverse=True: a rendition stays behind the earlier ones of its area.
RECURSIVE SortedDesc(_)
SortedDesc(files) ==
    IF files = <<>> THEN <<>>
    ELSE LET rest == SortedDesc(SubSeq(files, 1, Len(files) - 1))
             x    == files[Len(files)]
             k    == Cardinality({ i \in 1..Len(rest) : Area(rest[i]) >= Area(x) })
         IN  SubSeq(rest, 1, k) \o <<x>> \o SubSeq(rest, k + 1, Len(rest))

\* Lines 61-70.
_get_best_video_url(video) ==
    LET video_files == SortedDesc(video.video_files)
    IN  IF video_files # <<>> THEN video_files[1].link ELSE None

\* What the search endpoint may answer: an error or a list of videos.
SearchResponses ==
    { [ok |-> FALSE, videos |-> <<>>],
      [ok |-> TRUE, videos |-> <<>>],
      [ok |-> TRUE, videos |->
          << [url |-> "pexels/1",
              video_files |-> << Rendition(640, 360, "sd.mp4"),
                                 Rendition(1920, 1080, "hd.mp4"),
                                 Rendition(1280, 720, "md.mp4") >>] >>],
      [ok |-> TRUE, videos |-> << [url |-> "pexels/2", video_files |-> <<>>] >>] }

search_videos(resp) ==
    IF ~resp.ok THEN <<>>
    ELSE [i \in 1..Len(resp.videos) |->
            [url |-> resp.videos[i].url,
             download_url |-> _get_best_video_url(resp.videos[i])]]

\* download_video: the transfer succeeds (ok) or raises; no URL raises too.
download_video(video_url, save_path, ok) ==
    IF ~Truthy(video_url) THEN None
    ELSE IF ok THEN save_path ELSE None

(* ---------------- gpt_description.DescriptionGenerator ---------------- *)

\* Mutant of adjectives: the table is not consulted.
adjectives_unused(f) == <<f>>

\* Lines 68-75 and adjectives.get(f, f) of line 77, as words.
adjectives(f) ==
    CASE f = "spacious"   -> <<"expansive">>
      [] f = "modern"     -> <<"contemporary">>
      [] f = "bright"     -> <<"sun-filled">>
      [] f = "private"    -> <<"secluded">>
      [] f = "peaceful"   -> <<"tranquil">>
      [] f = "landscaped" -> <<"meticulously", "maintained">>
      [] OTHER            -> <<f>>

\* The words of ', '.join(items), each item a sequence of words.
RECURSIVE CommaJoin(_)
CommaJoin(items) ==
    IF items = <<>> THEN <<>>
    ELSE IF Len(items) = 1 THEN items[1]
    ELSE SubSeq(items[1], 1, Len(items[1]) - 1)
         \o << items[1][Len(items[1])] \o "," >>
         \o CommaJoin(Tail(items))

_generate_fallback_description(type, features) ==
    LET enhanced == [i \in 1..Len(features) |-> adjectives(features[i])]
        room     == SubSeq(type, 1, Len(type) - 1) \o << type[Len(type)] \o "," >>
    IN  [words |-> <<"Welcome", "to", "this", "exceptional">> \o room \o <<"where">>
                   \o CommaJoin(enhanced)
                   \o <<"features", "create", "an", "unforgettable", "living", "space.",
                        "This", "carefully", "designed", "area", "exemplifies", "luxury",
                        "living", "at", "its", "finest.">>,
         edge  |-> 0,
         inner |-> IF features = <<>> THEN 1 ELSE 0]

\* str.strip()
Strip(text) == [text EXCEPT !.edge = 0]

\* What the text model may do with the prompt: raise, or return the prompt
\* followed by a continuation (the text left by replace(prompt, '')).
ModelOutputs ==
    { [raised |-> TRUE,  text |-> Text(<<>>)],
      [raised |-> FALSE, text |-> Text(<<>>)],
      [raised |-> FALSE, text |-> [words |-> <<"A", "bright", "room.">>, edge |-> 3, inner |-> 0]],
      [raised |-> FALSE, text |-> [words |-> Desc(60).words, edge |-> 1, inner |-> 2]] }

\* Mutant of generate_description: a short output is returned as it is.
generate_description_unchecked(type, features, out) ==
    IF out.raised THEN _generate_fallback_description(type, features)
    ELSE Strip(out.text)

\* Mutant of generate_description: the length is taken before strip().
generate_description_unstripped(type, features, out) ==
    IF out.raised THEN _generate_fallback_description(type, features)
    ELSE IF CharLen(out.text) < min_description_len
         THEN _generate_fallback_description(type, features)
         ELSE Strip(out.text)

\* Lines 33-64.
generate_description(type, features, out) ==
    IF out.raised THEN _generate_fallback_description(type, features)
    ELSE IF CharLen(Strip(out.text)) < min_description_len
         THEN _generate_fallback_description(type, features)
         ELSE Strip(out.text)

(* ------------------ heygen_integration: the selectors ----------------- *)

\* What a listing endpoint may answer: an error (transport, HTTP status, not
\* JSON), a body without the expected keys, or a list of entries.
Listing(items) == [ok |-> TRUE, wellformed |-> TRUE, items |-> items]
ListingError   == [ok |-> FALSE, wellformed |-> FALSE, items |-> <<>>]
ListingBad     == [ok |-> TRUE, wellformed |-> FALSE, items |-> <<>>]

AvatarResponses ==
    { ListingError, ListingBad, Listing(<<>>),
      Listing(<< [avatar_id |-> "avatar_1"], [avatar_id |-> "avatar_2"] >>),
      Listing(<< [avatar_id |-> None], [avatar_id |-> "avatar_2"] >>) }

_get_first_available_avatar(resp) ==
    IF ~resp.ok THEN None
    ELSE IF resp.wellformed /\ resp.items # <<>> THEN resp.items[1].avatar_id
    ELSE None

\* str.startswith, on strings given as sequences of characters.
StartsWith(s, prefix) ==
    Len(s) >= Len(prefix) /\ SubSeq(s, 1, Len(prefix)) = prefix

Voice(id, code) == [voice_id |-> id, language_code |-> code]

VoiceResponses ==
    { ListingError, ListingBad, Listing(<<>>),
      Listing(<< Voice("voice_fr", <<"f", "r">>),
                 Voice("voice_en", <<"e", "n", "-", "U", "S">>),
                 Voice("voice_de", <<"d", "e">>) >>),
      Listing(<< Voice(None, <<"e">>) >>) }

\* Mutant of _get_first_available_voice: the first voice of the list, whatever
\* its language.
_get_first_voice(resp) ==
    IF ~resp.ok THEN None
    ELSE IF resp.wellformed /\ resp.items # <<>> THEN resp.items[1].voice_id
    ELSE None

_get_first_available_voice(resp) ==
    IF ~resp.ok THEN None
    ELSE IF resp.wellformed /\ resp.items # <<>> THEN
        LET en == { i \in 1..Len(resp.items) :
                      StartsWith(resp.items[i].language_code, <<"e", "n">>) }
            english_voice ==
                IF en = {} THEN None
                ELSE resp.items[CHOOSE i \in en : \A j \in en : i <= j].voice_id
        IN  IF Truthy(english_voice) THEN english_voice ELSE resp.items[1].voice_id
    ELSE None

\* _upload_video: the local file may be missing, the request may fail, the
\* answer may lack data.url.
UploadResponses == {"missing_file", "request_error", "bad_format", "ok"}

_upload_video(video_path, resp) ==
    IF resp = "ok" THEN "asset/" \o video_path ELSE None

(* ---------------- heygen_integration: the job request ----------------- *)

BuildPayload(avatar, voice, text, url) ==
    [avatar_id |-> avatar, voice_id |-> voice, input_text |-> text, url |-> url,
     width |-> 1280, height |-> 720]

\* debug_payload = payload.copy() is a shallow copy: video_inputs[0]['voice'] is
\* the same dictionary in both, so the assignment to debug_payload's input_text
\* is an assignment to payload's.
DebugLogPayload(payload, text) == [payload EXCEPT !.input_text = CharsTag(text)]

\* What the job-creation endpoint may answer.
SubmitResponses == {"network_error", "not_json", "http_error", "no_video_id", "ok"}

(* ---------------- heygen_integration: the status poll ----------------- *)

NonTerminal == {None, "pending", "processing"}
Statuses    == NonTerminal \cup {"completed", "failed"}
ResultUrls  == {None, "https://files/render_1.mp4", "https://files/render_2.mp4"}

Data(st, url) == [status |-> st, video_url |-> url, local_path |-> None]

\* What the status endpoint may answer: an error, or data with a status.
StatusResponses ==
    { [ok |-> FALSE, data |-> Data(None, None)] }
    \cup { [ok |-> TRUE, data |-> Data(st, None)] : st \in Statuses \ {"completed"} }
    \cup { [ok |-> TRUE, data |-> Data("completed", u)] : u \in ResultUrls }

\* _download_video: save_path when the transfer succeeds, None when it raises.
_download_video(video_url, save_path, ok) == IF ok THEN save_path ELSE None

LocalPath(id) == "output/video_" \o id \o ".mp4"

\* Mutant of Completed: local_path is attached whatever _download_video returned.
CompletedAlwaysPath(data, id, ok) ==
    IF Truthy(data.video_url)
    THEN [data EXCEPT !.local_path = LocalPath(id)]
    ELSE data

\* Lines 178-183 and 211-216: the completed data, with local_path attached when
\* there is a video_url and its download succeeds.
Completed(data, id, ok) ==
    IF Truthy(data.video_url) /\ Truthy(_download_video(data.video_url, LocalPath(id), ok))
    THEN [data EXCEPT !.local_path = LocalPath(id)]
    ELSE data

\* Lines 178-180 and 211-213: _download_video was called and wrote the file.
Saved(data, ok) ==
    Truthy(data.video_url) /\ Truthy(_download_video(data.video_url, "output", ok))

\* Mutant of SleepFor: the loop does not sleep.
SleepForNone(st) == 0

\* Mutant of SleepFor: the same sleep whatever the status.
SleepForFixed(st) == sleep_other

\* Lines 190-194: the sleep that ends an iteration of the poll loop.
SleepFor(st) == IF st = "processing" THEN sleep_processing ELSE sleep_other

(* ------------------------------- state -------------------------------- *)

VARIABLES
    pc,                   \* the statement about to run
    caller,               \* "process_room" or "direct" (a script calling create_video)
    room,                 \* process_room's room_type and features
    videos,               \* process_room: the search result
    downloaded_path,      \* process_room: the stock video on disk; create_video's video_path
    description,          \* process_room: the generated text; create_video's description
    max_retries,          \* create_video's arguments
    initial_timeout,
    current_description,  \* create_video's locals
    current_timeout,
    attempt,
    avatar_id,
    voice_id,
    video_url,
    video_id,
    elapsed,              \* _wait_for_completion: time.time() - start_time
    status,               \* _wait_for_completion: the status last read
    cv_result,            \* what create_video returned: <<>> (None) or <<data>>
    cv_error,             \* the exception create_video raised, or None
    room_result,          \* what process_room returned: <<>> until it has
    payload_sent,         \* history: the body of the last job-creation request
    submits,              \* history: job-creation requests sent in this call
    reported,             \* history: the data the status endpoint answered with
                          \* status 'completed': <<>> until it has
    log,                  \* history: one entry per attempt that has ended
    checks,               \* history: status requests made for the last job after
                          \* its poll loop had run out of time
    polled,               \* history: the video_id of the last status request
    render_saved,         \* history: _download_video wrote the rendered video
    rooms,                \* main(): the list the for loop runs over
    results,              \* main(): the records appended so far
    call,                 \* a helper called on its own: its name and arguments
    ret,                  \* what that helper returned: <<>> until it has
    polls                 \* history: the status requests of a _wait_for_completion
                          \* called on its own

roomVars == <<caller, room, videos, downloaded_path, description, room_result>>
argVars  == <<max_retries, initial_timeout>>
loopVars == <<current_description, current_timeout, attempt>>
stepVars == <<avatar_id, voice_id, video_url, video_id>>
pollVars == <<elapsed, status>>
outVars  == <<cv_result, cv_error>>
histVars == <<payload_sent, submits, reported, log, checks, polled, render_saved>>
mainVars == <<rooms, results>>
fnVars   == <<call, ret>>
vars == <<pc, roomVars, argVars, loopVars, stepVars, pollVars, outVars, histVars,
          mainVars, fnVars, polls>>

WordCount(text) == Len(Split(text))

\* An empty str is the only falsy one.
Falsy(text) == CharLen(text) = 0

RoomName == JoinStr(room.type, " ")

\* The identifier the service issues for the n-th job of this call.
JobId(n) == "job_" \o ToString(n)

\* No helper is being called on its own.
NoCall == [fn |-> "none"]

(* -------------------------------- Init --------------------------------- *)

InitCommon ==
    /\ videos = <<>>
    /\ current_description = Text(<<>>)
    /\ current_timeout = 0
    /\ attempt = 0
    /\ avatar_id = None /\ voice_id = None /\ video_url = None /\ video_id = None
    /\ elapsed = 0 /\ status = None
    /\ cv_result = <<>> /\ cv_error = None
    /\ room_result = <<>>
    /\ payload_sent = <<>> /\ submits = 0 /\ reported = <<>> /\ log = <<>>
    /\ checks = 0 /\ polled = None /\ render_saved = FALSE
    /\ polls = 0
    /\ results = <<>>

\* main(): process_room(room['type'], room['features']), create_video called
\* with its default max_retries and initial_timeout.
InitRoom ==
    /\ caller = "process_room"
    /\ pc = "search"
    /\ room \in Rooms
    /\ rooms = <<room>>
    /\ downloaded_path = None
    /\ description = Text(<<>>)
    /\ max_retries = default_max_retries
    /\ initial_timeout = default_timeout

\* test_heygen_video: create_video(video_path, description) called directly.
InitDirect(descriptions, retries, timeouts) ==
    /\ caller = "direct"
    /\ pc = "create"
    /\ room = [type |-> <<"test">>, features |-> <<>>]
    /\ rooms = <<>>
    /\ downloaded_path = "downloads/test_video.mp4"
    /\ description \in descriptions
    /\ max_retries \in retries
    /\ initial_timeout \in timeouts

Init ==
    /\ InitCommon
    /\ InitRoom \/ InitDirect(SomeDescriptions, 1..MaxRetries, SomeTimeouts)
    /\ call = NoCall /\ ret = <<>>

\* main(): the for loop over MainRooms is about to call process_room for the
\* first room.
InitMain ==
    /\ InitCommon
    /\ caller = "process_room"
    /\ pc = "search"
    /\ rooms = MainRooms
    /\ room = rooms[1]
    /\ call = NoCall /\ ret = <<>>
    /\ downloaded_path = None
    /\ description = Text(<<>>)
    /\ max_retries = default_max_retries
    /\ initial_timeout = default_timeout

\* The lists of 1..n elements of S, and of 0..n.
Lists(S, n) == UNION { [1..k -> S] : k \in 1..n }
Lists0(S, n) == UNION { [1..k -> S] : k \in 0..n }

\* Rendition lists: the sizes of a few renditions, two of them of equal area,
\* each rendition with the link of its position.
Sizes == { <<640, 360>>, <<1280, 720>>, <<720, 1280>>, <<1920, 1080>> }

RenditionLists ==
    { [i \in 1..Len(sz) |-> Rendition(sz[i][1], sz[i][2], "file_" \o ToString(i) \o ".mp4")] :
        sz \in Lists(Sizes, MaxFiles) }

\* Voice lists: language codes that begin with 'en', with 'e' only, with 'EN',
\* and others, each voice with the id of its position.
LanguageCodes ==
    { <<"e", "n">>, <<"e", "n", "-", "U", "S">>, <<"f", "r">>, <<"e">>, <<"E", "N">> }

VoiceLists ==
    { [i \in 1..Len(codes) |-> Voice("voice_" \o ToString(i), codes[i])] :
        codes \in Lists(LanguageCodes, MaxVoices) }

\* Features: keys of the adjectives table (one with a two-word synonym) and
\* words that are no key.
FeatureWords == {"spacious", "landscaped", "bright", "cozy"}

RoomTypes == { <<"garden">>, <<"living", "room">> }

\* What the text model leaves after replace(prompt, ''): n words of 4
\* characters, with or without whitespace around and a double space inside.
OutText(n, edge, inner) == [words |-> [i \in 1..n |-> "word"], edge |-> edge, inner |-> inner]

HelperOutputs ==
    { [raised |-> TRUE, text |-> Text(<<>>)] }
    \cup { [raised |-> FALSE, text |-> OutText(n, e, i)] :
             n \in 0..MaxOutWords, e \in {0, 2}, i \in {0} }
    \cup { [raised |-> FALSE, text |-> OutText(n, e, 1)] :
             n \in 2..MaxOutWords, e \in {0, 2} }

\* The calls of a helper on its own.
HelperCalls ==
    { [fn |-> "_get_best_video_url", video |-> [url |-> "pexels/1", video_files |-> files]] :
        files \in RenditionLists }
    \cup { [fn |-> "_get_first_available_voice", resp |-> r] :
             r \in {ListingError, ListingBad, Listing(<<>>)}
                   \cup { Listing(vs) : vs \in VoiceLists } }
    \cup { [fn |-> "generate_description", type |-> r.type, features |-> r.features,
            out |-> o] : r \in Rooms, o \in HelperOutputs }
    \cup { [fn |-> "_generate_fallback_description", type |-> t, features |-> fs] :
             t \in RoomTypes, fs \in Lists0(FeatureWords, MaxFeatures) }

\* The timeouts _wait_for_completion is called with on its own: negative, zero
\* and positive ones, multiples of the sleeps or not.
PollTimeouts == (-sleep_other)..MaxPollTimeout

\* _wait_for_completion(video_id, timeout) is about to be called on its own, as
\* by the only attempt of a create_video that has submitted job_1 (lines
\* 148-150: the loop has not started).
InitPoll ==
    /\ caller = "poll"
    /\ pc = "poll"
    /\ room = [type |-> <<"test">>, features |-> <<>>]
    /\ rooms = <<>> /\ results = <<>>
    /\ videos = <<>>
    /\ downloaded_path = "downloads/test_video.mp4"
    /\ description = Text(<<>>)
    /\ room_result = <<>>
    /\ max_retries = 1
    /\ initial_timeout \in PollTimeouts
    /\ current_timeout = initial_timeout
    /\ current_description = description
    /\ attempt = 0
    /\ avatar_id = "avatar_1" /\ voice_id = "voice_en"
    /\ video_url = "asset/downloads/test_video.mp4"
    /\ video_id = JobId(1)
    /\ elapsed = 0 /\ status = None
    /\ cv_result = <<>> /\ cv_error = None
    /\ payload_sent = <<>> /\ submits = 1 /\ reported = <<>> /\ log = <<>>
    /\ checks = 0 /\ polled = None /\ render_saved = FALSE
    /\ polls = 0
    /\ call = NoCall /\ ret = <<>>

\* A helper is about to be called on its own, outside any run.
InitHelper ==
    /\ InitCommon
    /\ caller = "helper"
    /\ pc = "call"
    /\ room = [type |-> <<"test">>, features |-> <<>>]
    /\ rooms = <<>>
    /\ downloaded_path = None
    /\ description = Text(<<>>)
    /\ max_retries = default_max_retries
    /\ initial_timeout = default_timeout
    /\ call \in HelperCalls
    /\ ret = <<>>

\* Direct calls with every description of up to MaxWords words, the other
\* arguments at their defaults.
InitWords ==
    /\ InitCommon
    /\ InitRoom \/ InitDirect(AllDescriptions, {default_max_retries}, {default_timeout})
    /\ call = NoCall /\ ret = <<>>

(* ---------------------- main.py: process_room -------------------------- *)

\* Mutant of RoomFailed: the exception leaves process_room and ends the run.
RoomFailedPropagates(msg) ==
    /\ room_result' = <<>>
    /\ pc' = "exit"

\* Lines 89-96: the except clause.
RoomFailed(msg) ==
    /\ room_result' = << [room_type |-> RoomName, features |-> room.features,
                          status |-> "failed", error |-> msg] >>
    /\ pc' = "done"

\* Mutant of Search: the check of the search result is missing, and videos[0]
\* raises on the empty list.
SearchUnchecked ==
    /\ pc = "search"
    /\ \E resp \in SearchResponses :
        /\ videos' = search_videos(resp)
        /\ IF videos' = <<>>
           THEN RoomFailed("list index out of range")
           ELSE pc' = "download" /\ UNCHANGED room_result
    /\ UNCHANGED <<caller, room, downloaded_path, description>>
    /\ UNCHANGED <<argVars, mainVars, fnVars, polls, loopVars, stepVars, pollVars, outVars, histVars>>

\* Lines 45-49.
Search ==
    /\ pc = "search"
    /\ \E resp \in SearchResponses :
        /\ videos' = search_videos(resp)
        /\ IF videos' = <<>>
           THEN RoomFailed("No videos found for " \o RoomName)
           ELSE pc' = "download" /\ UNCHANGED room_result
    /\ UNCHANGED <<caller, room, downloaded_path, description>>
    /\ UNCHANGED <<argVars, mainVars, fnVars, polls, loopVars, stepVars, pollVars, outVars, histVars>>

\* Lines 51-59.
Download ==
    /\ pc = "download"
    /\ \E ok \in BOOLEAN :
        /\ downloaded_path' =
              download_video(videos[1].download_url,
                             "downloads/" \o JoinStr(room.type, "_") \o ".mp4", ok)
        /\ IF ~Truthy(downloaded_path')
           THEN RoomFailed("Failed to download video for " \o RoomName)
           ELSE pc' = "describe" /\ UNCHANGED room_result
    /\ UNCHANGED <<caller, room, videos, description>>
    /\ UNCHANGED <<argVars, mainVars, fnVars, polls, loopVars, stepVars, pollVars, outVars, histVars>>

\* Lines 61-69.
Describe ==
    /\ pc = "describe"
    /\ \E out \in ModelOutputs :
        /\ description' = generate_description(room.type, room.features, out)
        /\ IF Falsy(description')
           THEN RoomFailed("Failed to generate description for " \o RoomName)
           ELSE pc' = "create" /\ UNCHANGED room_result
    /\ UNCHANGED <<caller, room, videos, downloaded_path>>
    /\ UNCHANGED <<argVars, mainVars, fnVars, polls, loopVars, stepVars, pollVars, outVars, histVars>>

\* Mutant of RoomResult: the check of create_video's result is missing.
RoomResultUnchecked ==
    /\ pc = "result"
    /\ IF cv_error # None THEN RoomFailed(cv_error)
       ELSE /\ room_result' = << [room_type |-> RoomName, features |-> room.features,
                                  description |-> description,
                                  video_url |-> IF cv_result = <<>> THEN None
                                                ELSE cv_result[1].video_url,
                                  status |-> "success"] >>
            /\ pc' = "done"
    /\ UNCHANGED <<caller, room, videos, downloaded_path, description>>
    /\ UNCHANGED <<argVars, mainVars, fnVars, polls, loopVars, stepVars, pollVars, outVars, histVars>>

\* Mutant of RoomResult: the record carries the description of the last attempt.
RoomResultShrunk ==
    /\ pc = "result"
    /\ IF cv_error # None THEN RoomFailed(cv_error)
       ELSE IF cv_result = <<>>
       THEN RoomFailed("Failed to create Heygen video for " \o RoomName)
       ELSE /\ room_result' = << [room_type |-> RoomName, features |-> room.features,
                                  description |-> current_description,
                                  video_url |-> cv_result[1].video_url,
                                  status |-> "success"] >>
            /\ pc' = "done"
    /\ UNCHANGED <<caller, room, videos, downloaded_path, description>>
    /\ UNCHANGED <<argVars, mainVars, fnVars, polls, loopVars, stepVars, pollVars, outVars, histVars>>

\* Lines 78-87, and 89-96 when create_video raised.
RoomResult ==
    /\ pc = "result"
    /\ IF cv_error # None THEN RoomFailed(cv_error)
       ELSE IF cv_result = <<>>
       THEN RoomFailed("Failed to create Heygen video for " \o RoomName)
       ELSE /\ room_result' = << [room_type |-> RoomName, features |-> room.features,
                                  description |-> description,
                                  video_url |-> cv_result[1].video_url,
                                  status |-> "success"] >>
            /\ pc' = "done"
    /\ UNCHANGED <<caller, room, videos, downloaded_path, description>>
    /\ UNCHANGED <<argVars, mainVars, fnVars, polls, loopVars, stepVars, pollVars, outVars, histVars>>

(* ------------------------ helpers on their own ------------------------- *)

\* The helper named fn is called with the arguments of call and returns value.
Returns(fn, value) ==
    /\ pc = "call"
    /\ call.fn = fn
    /\ ret' = <<value>>
    /\ pc' = "returned"
    /\ UNCHANGED <<roomVars, argVars, loopVars, stepVars, pollVars, outVars, histVars,
                   mainVars, call, polls>>

Call_get_best_video_url ==
    /\ call.fn = "_get_best_video_url"
    /\ Returns("_get_best_video_url", _get_best_video_url(call.video))

Call_get_first_available_voice ==
    /\ call.fn = "_get_first_available_voice"
    /\ Returns("_get_first_available_voice", _get_first_available_voice(call.resp))

Call_generate_description ==
    /\ call.fn = "generate_description"
    /\ Returns("generate_description",
               generate_description(call.type, call.features, call.out))

Call_generate_fallback_description ==
    /\ call.fn = "_generate_fallback_description"
    /\ Returns("_generate_fallback_description",
               _generate_fallback_description(call.type, call.features))

(* --------------------------- main.py: main ----------------------------- *)

\* Lines 114-124: process_room has returned; the record is appended and the for
\* loop calls process_room for the next room, or ends after the last one.
MainLoop ==
    /\ pc = "done" /\ caller = "process_room"
    /\ Len(results) < Len(rooms)
    /\ results' = Append(results, room_result[1])
    /\ IF Len(results') < Len(rooms)
       THEN /\ room' = rooms[Len(results') + 1]
            /\ pc' = "search"
            /\ videos' = <<>>
            /\ downloaded_path' = None
            /\ description' = Text(<<>>)
            /\ room_result' = <<>>
            /\ current_description' = Text(<<>>)
            /\ current_timeout' = 0
            /\ attempt' = 0
            /\ avatar_id' = None /\ voice_id' = None
            /\ video_url' = None /\ video_id' = None
            /\ cv_result' = <<>> /\ cv_error' = None
            /\ payload_sent' = <<>> /\ submits' = 0 /\ reported' = <<>>
            /\ log' = <<>>
            /\ checks' = 0 /\ polled' = None /\ render_saved' = FALSE
       ELSE /\ pc' = "exit"
            /\ UNCHANGED <<room, videos, downloaded_path, description, room_result>>
            /\ UNCHANGED <<loopVars, stepVars, outVars, histVars>>
    /\ UNCHANGED <<caller, rooms, argVars, pollVars, fnVars, polls>>

(* --------------- heygen_integration.py: create_video ------------------- *)

\* The entry the history keeps of the attempt that is ending: how it ended
\* ("error": an exception before the poll; "poll_error": a status request of the
\* loop raised; "failed" / "completed": that status was read; "timeout": the loop
\* ran out of time and the last request read no terminal status), the job it
\* submitted (None when it submitted none), and the description and timeout it
\* ran with.
Entry(outcome, job) ==
    [outcome |-> outcome, video_id |-> job,
     words |-> WordCount(current_description), timeout |-> current_timeout]

\* Mutant of AttemptsRemain: the last retry is never made.
AttemptsRemainEarly == attempt < max_retries - 2

\* Line 394 (and 409, 414): another iteration of the for loop remains.
AttemptsRemain == attempt < max_retries - 1

\* Mutant of NextDescription: words_per_retry is not subtracted.
NextDescriptionSame(text) == _truncate_text(text, WordCount(text))

\* Lines 396-397.
NextDescription(text) == _truncate_text(text, WordCount(text) - words_per_retry)

\* Mutant of NextTimeout: no floor.
NextTimeoutNoFloor(t) == t - timeout_step

\* Line 399.
NextTimeout(t) == Max(timeout_floor, t - timeout_step)

\* create_video returns res, or raises err, to its caller.
Return(res, err) ==
    /\ cv_result' = res
    /\ cv_error' = err
    /\ pc' = IF caller = "process_room" THEN "result" ELSE "done"

\* Lines 276-280.
CreateVideo ==
    /\ pc = "create"
    /\ current_description' = description
    /\ current_timeout' = initial_timeout
    /\ attempt' = 0
    /\ IF max_retries >= 1 THEN pc' = "avatar" /\ UNCHANGED outVars
       ELSE Return(<<>>, None)
    /\ UNCHANGED <<roomVars, argVars, mainVars, fnVars, polls, stepVars, pollVars, histVars>>

\* Mutant of OnError: the exception is re-raised on every attempt.
OnErrorAbort(msg, job) ==
    /\ log' = Append(log, Entry("error", job))
    /\ Return(<<>>, msg)
    /\ UNCHANGED loopVars

\* Mutant of OnError: an exception does not use up an attempt.
OnErrorFreeRetry(msg, job) ==
    /\ log' = Append(log, Entry("error", job))
    /\ pc' = "avatar"
    /\ UNCHANGED <<loopVars, outVars>>

\* Lines 404-416: an exception raised inside the try of an attempt.
OnError(msg, job) ==
    /\ log' = Append(log, Entry("error", job))
    /\ IF AttemptsRemain
       THEN attempt' = attempt + 1 /\ pc' = "avatar" /\ UNCHANGED outVars
       ELSE Return(<<>>, msg) /\ UNCHANGED attempt
    /\ UNCHANGED <<current_description, current_timeout>>

\* Mutant of OnNoResult: the retry goes straight to the job submission, with
\* the avatar, the voice and the uploaded URL of the attempt before.
OnNoResultResubmits(outcome) ==
    /\ log' = Append(log, Entry(outcome, video_id))
    /\ IF AttemptsRemain
       THEN /\ current_description' = NextDescription(current_description)
            /\ current_timeout' = NextTimeout(current_timeout)
            /\ attempt' = attempt + 1
            /\ pc' = "submit"
            /\ UNCHANGED outVars
       ELSE Return(<<>>, None) /\ UNCHANGED loopVars

\* Lines 392-402: _wait_for_completion returned None.
OnNoResult(outcome) ==
    /\ log' = Append(log, Entry(outcome, video_id))
    /\ IF AttemptsRemain
       THEN /\ current_description' = NextDescription(current_description)
            /\ current_timeout' = NextTimeout(current_timeout)
            /\ attempt' = attempt + 1
            /\ pc' = "avatar"
            /\ UNCHANGED outVars
       ELSE Return(<<>>, None) /\ UNCHANGED loopVars

\* Mutant of OnResult: the completed data is treated like no result.
OnResultIgnored(data) == OnNoResult("completed")

\* Lines 390-391: _wait_for_completion returned the completed data.
OnResult(data) ==
    /\ log' = Append(log, Entry("completed", video_id))
    /\ Return(<<data>>, None)
    /\ UNCHANGED loopVars

\* Lines 286-289.
GetAvatar ==
    /\ pc = "avatar"
    /\ \E resp \in AvatarResponses :
        /\ avatar_id' = _get_first_available_avatar(resp)
        /\ IF Truthy(avatar_id')
           THEN pc' = "voice" /\ UNCHANGED <<loopVars, outVars, log>>
           ELSE OnError("Failed to get avatar ID", None)
    /\ UNCHANGED <<voice_id, video_url, video_id, payload_sent, submits, reported,
                 checks, polled, render_saved>>
    /\ UNCHANGED <<roomVars, argVars, mainVars, fnVars, polls, pollVars>>

\* Lines 292-295.
GetVoice ==
    /\ pc = "voice"
    /\ \E resp \in VoiceResponses :
        /\ voice_id' = _get_first_available_voice(resp)
        /\ IF Truthy(voice_id')
           THEN pc' = "upload" /\ UNCHANGED <<loopVars, outVars, log>>
           ELSE OnError("Failed to get voice ID", None)
    /\ UNCHANGED <<avatar_id, video_url, video_id, payload_sent, submits, reported,
                 checks, polled, render_saved>>
    /\ UNCHANGED <<roomVars, argVars, mainVars, fnVars, polls, pollVars>>

\* Lines 299-302.
Upload ==
    /\ pc = "upload"
    /\ \E resp \in UploadResponses :
        /\ video_url' = _upload_video(downloaded_path, resp)
        /\ IF Truthy(video_url')
           THEN pc' = "submit" /\ UNCHANGED <<loopVars, outVars, log>>
           ELSE OnError("Failed to upload background video", None)
    /\ UNCHANGED <<avatar_id, voice_id, video_id, payload_sent, submits, reported,
                 checks, polled, render_saved>>
    /\ UNCHANGED <<roomVars, argVars, mainVars, fnVars, polls, pollVars>>

\* Mutant of Submit: a video id the client already holds is kept, and the poll
\* resumes the stale job.
SubmitResumesJob ==
    /\ pc = "submit"
    /\ payload_sent' =
          << DebugLogPayload(BuildPayload(avatar_id, voice_id, current_description, video_url),
                             current_description) >>
    /\ submits' = submits + 1
    /\ \E resp \in SubmitResponses :
        IF resp = "ok"
        THEN /\ video_id' = IF video_id # None THEN video_id ELSE JobId(submits + 1)
             /\ elapsed' = 0 /\ status' = None
             /\ checks' = 0
             /\ pc' = "poll"
             /\ UNCHANGED <<loopVars, outVars, log>>
        ELSE /\ OnError(CASE resp = "network_error" -> "Connection error"
                          [] resp = "not_json"      -> "Expecting value"
                          [] resp = "http_error"    -> "API Error: Unknown error"
                          [] OTHER                  -> "No video ID in response", None)
             /\ UNCHANGED <<video_id, pollVars, checks>>
    /\ UNCHANGED <<avatar_id, voice_id, video_url, reported, polled, render_saved>>
    /\ UNCHANGED <<roomVars, argVars, mainVars, fnVars, polls>>

\* Lines 306-388: the payload is built, logged and posted; the answer yields the
\* video id, and _wait_for_completion starts (lines 148-150).
Submit ==
    /\ pc = "submit"
    /\ payload_sent' =
          << DebugLogPayload(BuildPayload(avatar_id, voice_id, current_description, video_url),
                             current_description) >>
    /\ submits' = submits + 1
    /\ \E resp \in SubmitResponses :
        IF resp = "ok"
        THEN /\ video_id' = JobId(submits + 1)
             /\ elapsed' = 0 /\ status' = None
             /\ checks' = 0
             /\ pc' = "poll"
             /\ UNCHANGED <<loopVars, outVars, log>>
        ELSE /\ OnError(CASE resp = "network_error" -> "Connection error"
                          [] resp = "not_json"      -> "Expecting value"
                          [] resp = "http_error"    -> "API Error: Unknown error"
                          [] OTHER                  -> "No video ID in response", None)
             /\ UNCHANGED <<video_id, pollVars, checks>>
    /\ UNCHANGED <<avatar_id, voice_id, video_url, reported, polled, render_saved>>
    /\ UNCHANGED <<roomVars, argVars, mainVars, fnVars, polls>>

(* ----------- heygen_integration.py: _wait_for_completion --------------- *)

\* Lines 154-158 and 199-203: one more requests.get, counted when
\* _wait_for_completion is called on its own.
Counted(n) == IF caller = "poll" THEN n + 1 ELSE n

\* _wait_for_completion returns: its locals are gone.
PollReturns == elapsed' = 0 /\ status' = None

\* Mutant of PollIteration: the 'failed' branch does not return, and the loop
\* goes on polling the job.
PollIterationFailedContinues ==
    /\ pc = "poll"
    /\ elapsed < current_timeout
    /\ \E resp \in StatusResponses :
        IF ~resp.ok
        THEN OnNoResult("poll_error") /\ PollReturns
             /\ UNCHANGED <<reported, render_saved>>
        ELSE IF resp.data.status = "completed"
        THEN /\ \E ok \in BOOLEAN :
                  /\ OnResult(Completed(resp.data, video_id, ok))
                  /\ render_saved' = Saved(resp.data, ok)
             /\ reported' = <<resp.data>>
             /\ PollReturns
        ELSE /\ status' = resp.data.status
             /\ elapsed' = elapsed + SleepFor(resp.data.status)
             /\ UNCHANGED <<pc, loopVars, outVars, log, reported, render_saved>>
    /\ polled' = video_id
    /\ UNCHANGED <<payload_sent, submits, checks>>
    /\ polls' = Counted(polls)
    /\ UNCHANGED <<roomVars, argVars, mainVars, fnVars, stepVars>>

\* Lines 152-194: one iteration of the poll loop, and what create_video does
\* with the value when the iteration returns one.
PollIteration ==
    /\ pc = "poll"
    /\ elapsed < current_timeout
    /\ \E resp \in StatusResponses :
        IF ~resp.ok
        THEN \* lines 225-230
             OnNoResult("poll_error") /\ PollReturns
             /\ UNCHANGED <<reported, render_saved>>
        ELSE IF resp.data.status = "completed"
        THEN /\ \E ok \in BOOLEAN :
                  /\ OnResult(Completed(resp.data, video_id, ok))
                  /\ render_saved' = Saved(resp.data, ok)
             /\ reported' = <<resp.data>>
             /\ PollReturns
        ELSE IF resp.data.status = "failed"
        THEN OnNoResult("failed") /\ PollReturns
             /\ UNCHANGED <<reported, render_saved>>
        ELSE /\ status' = resp.data.status
             /\ elapsed' = elapsed + SleepFor(resp.data.status)
             /\ UNCHANGED <<pc, loopVars, outVars, log, reported, render_saved>>
    /\ polled' = video_id
    /\ UNCHANGED <<payload_sent, submits, checks>>
    /\ polls' = Counted(polls)
    /\ UNCHANGED <<roomVars, argVars, mainVars, fnVars, stepVars>>

\* Mutant of FinalCheck: the poll gives up without the last status request.
FinalCheckSkipped ==
    /\ pc = "poll"
    /\ elapsed >= current_timeout
    /\ OnNoResult("timeout")
    /\ PollReturns
    /\ UNCHANGED <<payload_sent, submits, reported, checks, polled, render_saved>>
    /\ UNCHANGED <<roomVars, argVars, mainVars, fnVars, polls, stepVars>>

\* Lines 196-223: the loop ran out of time; one last status request.
FinalCheck ==
    /\ pc = "poll"
    /\ elapsed >= current_timeout
    /\ \E resp \in StatusResponses :
        IF ~resp.ok
        THEN \* lines 221-223
             OnNoResult("timeout") /\ UNCHANGED <<reported, render_saved>>
        ELSE IF resp.data.status = "completed"
        THEN /\ \E ok \in BOOLEAN :
                  /\ OnResult(Completed(resp.data, video_id, ok))
                  /\ render_saved' = Saved(resp.data, ok)
             /\ reported' = <<resp.data>>
        ELSE /\ OnNoResult(IF resp.data.status = "failed" THEN "failed" ELSE "timeout")
             /\ UNCHANGED <<reported, render_saved>>
    /\ PollReturns
    /\ polled' = video_id
    /\ checks' = checks + 1
    /\ UNCHANGED <<payload_sent, submits>>
    /\ polls' = Counted(polls)
    /\ UNCHANGED <<roomVars, argVars, mainVars, fnVars, stepVars>>

(* ------------------------------- Next ---------------------------------- *)

Next ==
    \/ Search
    \/ Download
    \/ Describe
    \/ RoomResult
    \/ CreateVideo
    \/ GetAvatar
    \/ GetVoice
    \/ Upload
    \/ Submit
    \/ PollIteration
    \/ FinalCheck

Spec == Init /\ [][Next]_vars

SpecWords == InitWords /\ [][Next]_vars

\* main(): process_room for each room of the list, one after the other.
NextMain ==
    \/ Search
    \/ Download
    \/ Describe
    \/ RoomResult
    \/ CreateVideo
    \/ GetAvatar
    \/ GetVoice
    \/ Upload
    \/ Submit
    \/ PollIteration
    \/ FinalCheck
    \/ MainLoop

SpecMain == InitMain /\ [][NextMain]_vars

\* A helper called on its own, with every argument of HelperCalls.
NextHelper ==
    \/ Call_get_best_video_url
    \/ Call_get_first_available_voice
    \/ Call_generate_description
    \/ Call_generate_fallback_description

SpecHelper == InitHelper /\ [][NextHelper]_vars

\* _wait_for_completion called on its own.  Every status request returns (an
\* answer or an exception) and every sleep ends: a step that is possible is
\* taken.
NextPoll ==
    \/ PollIteration
    \/ FinalCheck

SpecPoll == InitPoll /\ [][NextPoll]_vars /\ WF_vars(NextPoll)

(* ------------------------------ claims -------------------------------- *)

\* create_video has returned or raised.
Returned == pc \in {"result", "done"} /\ log # <<>>

\* Every attempt that has ended so far ended by running out of poll time.
AllTimedOut == \A i \in 1..Len(log) : log[i].outcome = "timeout"

\* C1: when the job of attempt 1 of 3 is reported 'failed', create_video makes
\* no second attempt and reports failure to its caller.
C1_FailedJobNotRetried ==
    (max_retries = 3 /\ log # <<>> /\ log[1].outcome = "failed")
        => /\ Len(log) = 1
           /\ attempt = 0
           /\ pc \in {"result", "done"}
           /\ cv_result = <<>>

\* C2: the input_text of the job-creation request of an attempt is that
\* attempt's current description.
C2_SentTextIsDescription ==
    pc = "poll" => payload_sent[1].input_text = current_description

\* C3: with max_retries = 3 and every attempt timing out, create_video ends
\* after exactly 3 attempts and 3 job submissions, each job polled, and returns
\* no result.
C3_ThreeAttemptsThenFailure ==
    (max_retries = 3 /\ Returned /\ AllTimedOut)
        => /\ Len(log) = 3
           /\ submits = 3
           /\ \A i \in 1..3 : log[i].video_id = JobId(i)
           /\ cv_result = <<>>
           /\ cv_error = None

C3_Witness ==
    /\ pc = "done" /\ caller = "direct"
    /\ max_retries = 3 /\ AllTimedOut /\ Len(log) = 3 /\ submits = 3

C5_ShrinkRemovesLast50Words ==
    [][ (/\ Len(log') = Len(log) + 1
         /\ log'[Len(log')].outcome = "timeout"
         /\ attempt' = attempt + 1)
        => Split(current_description')
             = SubSeq(Split(current_description), 1,
                      IF WordCount(current_description) > 50
                      THEN WordCount(current_description) - 50 ELSE 0) ]_vars

\* C6: after a timeout with attempts remaining the next poll timeout is the
\* current one less 60 seconds, but not below 180; with initial_timeout = 300
\* and max_retries = 3 the attempts that time out poll with 300, 240 and 180.
C6_TimeoutSchedule ==
    /\ \A i \in 1..(Len(log) - 1) :
          log[i].outcome = "timeout"
              => log[i + 1].timeout =
                    (IF log[i].timeout - 60 < 180 THEN 180 ELSE log[i].timeout - 60)
    /\ (max_retries = 3 /\ initial_timeout = 300 /\ AllTimedOut)
          => \A i \in 1..Len(log) : log[i].timeout = <<300, 240, 180>>[i]

C6_Witness ==
    /\ Returned /\ AllTimedOut /\ Len(log) = 3
    /\ log[1].timeout = 300 /\ log[2].timeout = 240 /\ log[3].timeout = 180

\* C7: once a status request has read 'completed', create_video has returned the
\* data of that job, and it is at no step that makes a request: the attempt
\* that read it is the last one.
C7_CompletedEndsTheCall ==
    reported # <<>>
        => /\ pc \in {"result", "done"}
           /\ cv_error = None
           /\ cv_result # <<>>
           /\ cv_result[1].status = "completed"
           /\ cv_result[1].video_url = reported[1].video_url
           /\ log[Len(log)].outcome = "completed"
           /\ log[Len(log)].video_id = JobId(submits)
           /\ \A i \in 1..(Len(log) - 1) : log[i].outcome # "completed"

C7_Witness ==
    /\ reported # <<>> /\ pc = "done" /\ caller = "direct"
    /\ Len(log) = 2 /\ log[1].outcome = "timeout"

\* C8: an attempt k < max_retries that ends with an error is followed by
\* attempt k + 1; an error ends the call only on attempt max_retries.
C8_ErrorsAreRetried ==
    \A i \in 1..Len(log) :
        log[i].outcome \in {"error", "poll_error"}
            => IF i < max_retries
               THEN \/ Len(log) > i
                    \/ attempt = i /\ pc \in {"avatar", "voice", "upload", "submit", "poll"}
               ELSE i = Len(log) /\ pc \in {"result", "done"}

C8_Witness ==
    /\ cv_error # None /\ max_retries = 3 /\ Len(log) = 3
    /\ log[1].outcome = "poll_error" /\ log[2].outcome = "error"

\* C9: a room result has status 'success' only if a stock video was found and
\* downloaded, a non-empty description was produced and create_video returned
\* the data of a job read as 'completed'; otherwise its status is 'failed'.
C9_SuccessOnlyWhenAllExist ==
    room_result # <<>>
        => IF room_result[1].status = "success"
           THEN /\ videos # <<>>
                /\ Truthy(downloaded_path)
                /\ ~Falsy(description)
                /\ cv_result # <<>>
                /\ cv_result[1].status = "completed"
                /\ reported # <<>>
                /\ log[Len(log)].outcome = "completed"
           ELSE room_result[1].status = "failed"

C9_Witness ==
    /\ room_result # <<>> /\ room_result[1].status = "success"
    /\ Len(log) = 1 /\ cv_result[1].local_path = LocalPath(JobId(1))

\* C10: when every stage succeeds and the poll reads 'completed' with a video
\* URL, the room result has status 'success', the video_url the status
\* endpoint reported, and the generated description.
C10_SuccessCarriesReportedUrl ==
    (room_result # <<>> /\ reported # <<>> /\ Truthy(reported[1].video_url))
        => /\ room_result[1].status = "success"
           /\ room_result[1].video_url = reported[1].video_url
           /\ room_result[1].description = description
           /\ ~Falsy(room_result[1].description)

C10_Witness ==
    /\ room_result # <<>> /\ room_result[1].status = "success"
    /\ room_result[1].video_url = "https://files/render_2.mp4"
    /\ Len(log) = 2 /\ log[1].outcome = "timeout"
(* ----------------------- claims about main() --------------------------- *)

\* The record process_room returns for room rm when the search found nothing.
NoVideosRecord(rm) ==
    [room_type |-> JoinStr(rm.type, " "), features |-> rm.features,
     status |-> "failed", error |-> "No videos found for " \o JoinStr(rm.type, " ")]

\* C11: when search_videos returns an empty list for a room, process_room
\* returns a failed record whose error says that no videos were found, nothing
\* has been downloaded, described or submitted for that room, and the for loop
\* of main() goes on to the next room.
C11_NoVideosFailsOnlyThatRoom ==
    /\ (caller = "process_room" /\ pc # "search" /\ videos = <<>>) =>
          /\ pc \in {"done", "exit"}
          /\ room_result = << NoVideosRecord(room) >>
          /\ downloaded_path = None
          /\ description = Text(<<>>)
          /\ submits = 0 /\ payload_sent = <<>> /\ log = <<>> /\ polled = None
    /\ \A i \in 1..Len(results) :
          (results[i] = NoVideosRecord(rooms[i]) /\ i = Len(results) /\ i < Len(rooms)) =>
              /\ room = rooms[i + 1]
              /\ pc \notin {"exit"}

\* The search of the first room found nothing and the second room is past its
\* own search.
C11_Witness ==
    /\ Len(results) = 1 /\ Len(rooms) = 2
    /\ results[1] = NoVideosRecord(rooms[1])
    /\ room = rooms[2]
    /\ pc = "upload"

\* A stage of process_room has failed: the search, the download, the
\* description, or create_video (no result, or raised on its last attempt).
StageFailed ==
    \/ videos = <<>>
    \/ ~Truthy(downloaded_path)
    \/ Falsy(description)
    \/ cv_error # None
    \/ cv_result = <<>>

\* C12: process_room always returns a record; when a stage failed (search,
\* download, description, create_video returning None or raising) the record
\* has status 'failed' and a non-empty error string; main() collects exactly
\* one record per room, in the order of the list, and ends only after the last
\* room, whatever failed before.
C12_FailureIsolation ==
    /\ (caller = "process_room" /\ pc \in {"done", "exit"}) =>
          /\ Len(room_result) = 1
          /\ room_result[1].room_type = RoomName
          /\ room_result[1].status \in {"success", "failed"}
          /\ StageFailed =>
                /\ room_result[1].status = "failed"
                /\ "error" \in DOMAIN room_result[1]
                /\ Len(room_result[1].error) > 0
                /\ cv_error # None => room_result[1].error = cv_error
    /\ Len(results) <= Len(rooms)
    /\ \A i \in 1..Len(results) :
          /\ results[i].room_type = JoinStr(rooms[i].type, " ")
          /\ results[i].features = rooms[i].features
    /\ pc = "exit" => Len(results) = Len(rooms)
    /\ (caller = "process_room" /\ pc # "exit") => room = rooms[Len(results) + 1]

\* main() has ended: create_video raised on its last attempt for the first room,
\* and the second room succeeded.
C12_Witness ==
    /\ pc = "exit"
    /\ Len(results) = 2
    /\ results[1].status = "failed"
    /\ results[1].error = "Failed to get voice ID"
    /\ results[2].status = "success"

(* ------------------ claims about _wait_for_completion ------------------ *)

\* The last attempt that ended is the one of the job submitted last.
LastEntryIsLastJob ==
    /\ log # <<>>
    /\ video_id # None
    /\ log[Len(log)].video_id = video_id

\* The poll loop of the current job has run out of time without having read
\* 'completed' or 'failed'.
LoopExhausted == pc = "poll" /\ elapsed >= current_timeout

\* C13: when the poll loop runs out of time without having read 'completed' or
\* 'failed', the next step is one status request for that job and the poll
\* ends with it: the completed data is returned when the request reads
\* 'completed', None otherwise; no job ever gets a second such request, and no
\* poll gives up for timeout without one.
C13_OneFinalCheck ==
    /\ [](/\ checks \in {0, 1}
          /\ pc = "poll" => checks = 0
          /\ (LastEntryIsLastJob /\ log[Len(log)].outcome = "timeout") =>
                checks = 1 /\ cv_result = <<>>)
    /\ [][LoopExhausted =>
            /\ checks' = 1
            /\ polled' = video_id
            /\ pc' # "poll"
            /\ Len(log') = Len(log) + 1
            /\ log'[Len(log')].video_id = video_id
            /\ IF reported' # <<>>
               THEN /\ log'[Len(log')].outcome = "completed"
                    /\ Len(cv_result') = 1
                    /\ cv_result'[1].status = "completed"
                    /\ cv_result'[1].video_url = reported'[1].video_url
               ELSE /\ log'[Len(log')].outcome \in {"timeout", "failed"}
                    /\ cv_result' = <<>>]_vars

\* The first job timed out after its final check, and the final check of the
\* second job read 'completed'.
C13_Witness ==
    /\ Len(log) = 2
    /\ log[1].outcome = "timeout"
    /\ log[2].outcome = "completed"
    /\ checks = 1
    /\ cv_result # <<>>

\* The job id of the attempt that ended last.
LastJob == log[Len(log)].video_id

\* C14 as stated: whenever the poll returns the data of a job it read as
\* 'completed', the rendered video has been downloaded and the data carries
\* local_path = output/video_<job id>.mp4.
C14_CompletedResultHasLocalPath ==
    cv_result # <<>> =>
        /\ render_saved
        /\ cv_result[1].local_path = "output/video_" \o LastJob \o ".mp4"

\* C14, amended: the data returned for a 'completed' job carries
\* local_path = output/video_<job id>.mp4 exactly when the status answer had a
\* video_url and _download_video wrote the file; otherwise the data is returned
\* as the service sent it, without a local_path.
C14_LocalPathIffDownloaded ==
    cv_result # <<>> =>
        /\ reported # <<>>
        /\ cv_result[1].status = "completed"
        /\ render_saved => Truthy(reported[1].video_url)
        /\ IF render_saved
           THEN cv_result[1].local_path = "output/video_" \o LastJob \o ".mp4"
           ELSE cv_result[1] = reported[1] /\ cv_result[1].local_path = None

\* The second job completed and its video was downloaded.
C14_Witness ==
    /\ cv_result # <<>>
    /\ render_saved
    /\ Len(log) = 2
    /\ cv_result[1].local_path = "output/video_job_2.mp4"

\* The jobs the client has read as 'completed' or 'failed'.
TerminalJobs ==
    { log[i].video_id : i \in { j \in 1..Len(log) : log[j].outcome \in {"completed", "failed"} } }

\* C15: once the client has read 'completed' or 'failed' for a job, no status
\* request is made for that job id again, and what was recorded for the job
\* (its entry in the history, the result returned for it) never changes; the
\* job being polled has been read in no terminal status.
C15_TerminalStatesAreFinal ==
    /\ [](pc = "poll" => (status \in NonTerminal /\ video_id \notin TerminalJobs))
    /\ [][/\ pc = "poll" => (polled' = video_id /\ polled' \notin TerminalJobs)
          /\ \A i \in 1..Len(log) : Len(log') >= i /\ log'[i] = log[i]
          /\ TerminalJobs \subseteq TerminalJobs'
          /\ cv_result # <<>> => cv_result' = cv_result]_vars

\* The first job was read as 'failed', and status requests are being made for
\* the second.
C15_Witness ==
    /\ log # <<>>
    /\ log[1].outcome = "failed"
    /\ log[1].video_id = "job_1"
    /\ pc = "poll"
    /\ polled = "job_2"
    /\ elapsed > 0

\* The attempts that ended so far and had submitted a job.
JobEntries == { i \in 1..Len(log) : log[i].video_id # None }

\* C16: every attempt polls the job its own submission created: the id polled
\* is the one the last job-creation request returned, it differs from the id of
\* every earlier attempt, and no two attempts share a job id.
C16_FreshJobPerAttempt ==
    /\ [](/\ pc = "poll" =>
                /\ Len(log) = attempt
                /\ video_id = JobId(submits)
                /\ \A i \in JobEntries : log[i].video_id # video_id
          /\ \A i, j \in JobEntries : i # j => log[i].video_id # log[j].video_id
          /\ Cardinality(JobEntries) <= submits)
    /\ [][pc = "poll" =>
            /\ polled' = JobId(submits)
            /\ \A i \in JobEntries : log[i].video_id # polled']_vars

\* The third attempt polls the third job; the first two attempts polled theirs.
C16_Witness ==
    /\ pc = "poll"
    /\ attempt = 2
    /\ polled = "job_3"
    /\ Len(log) = 2
    /\ log[1].video_id = "job_1"
    /\ log[2].video_id = "job_2"

(* ---------------------- claims about the helpers ----------------------- *)

\* The helper named fn has returned.
Returned_(fn) == call.fn = fn /\ ret # <<>>

\* C17: for every non-empty list of renditions, _get_best_video_url returns
\* the link of a rendition of maximal width * height, the first such one of
\* the list.
C17_BestRenditionFirstAmongTies ==
    Returned_("_get_best_video_url") =>
        LET files == call.video.video_files
        IN  \E i \in 1..Len(files) :
              /\ ret[1] = files[i].link
              /\ \A j \in 1..Len(files) :
                    files[j].width * files[j].height <= files[i].width * files[i].height
              /\ \A j \in 1..(i - 1) :
                    files[j].width * files[j].height < files[i].width * files[i].height

\* 640x360, then 1280x720 and 720x1280 of equal area: the second is returned.
C17_Witness ==
    /\ Returned_("_get_best_video_url")
    /\ Len(call.video.video_files) = 3
    /\ call.video.video_files[1].width = 640
    /\ call.video.video_files[2].width = 1280
    /\ call.video.video_files[3].width = 720
    /\ ret = << "file_2.mp4" >>

\* The language code of a voice begins with 'en'.
IsEnglish(v) ==
    /\ Len(v.language_code) >= 2
    /\ v.language_code[1] = "e"
    /\ v.language_code[2] = "n"

\* C18: for every non-empty voice list, _get_first_available_voice returns the
\* first voice whose language code begins with 'en' when there is one, wherever
\* it is in the list, and the first voice of the list otherwise; a listing that
\* is empty, malformed or could not be fetched yields None.
C18_FirstEnglishVoiceElseFirst ==
    Returned_("_get_first_available_voice") =>
        LET voices == call.resp.items
            en     == { i \in 1..Len(voices) : IsEnglish(voices[i]) }
        IN  IF ~call.resp.ok \/ ~call.resp.wellformed \/ voices = <<>>
            THEN ret[1] = None
            ELSE IF en # {}
            THEN \E i \in en : (\A j \in en : i <= j) /\ ret[1] = voices[i].voice_id
            ELSE ret[1] = voices[1].voice_id

\* 'fr', 'en-US', 'en': the second voice is returned.
C18_Witness ==
    /\ Returned_("_get_first_available_voice")
    /\ Len(call.resp.items) = 3
    /\ call.resp.items[1].language_code = <<"f", "r">>
    /\ call.resp.items[2].language_code = <<"e", "n", "-", "U", "S">>
    /\ call.resp.items[3].language_code = <<"e", "n">>
    /\ ret = << "voice_2" >>

\* C19: whatever the text model does (raise, or return a text of any length),
\* generate_description returns a non-empty description; it is the template
\* fallback exactly when the model raised or what is left of its output after
\* the prompt is removed and the whitespace stripped has fewer than 20
\* characters, and that stripped output otherwise.
C19_GenerateDescriptionIsTotal ==
    Returned_("generate_description") =>
        LET text     == call.out.text
            stripped == SumLen(text.words) + Max(0, Len(text.words) - 1) + text.inner
            fallback == _generate_fallback_description(call.type, call.features)
        IN  /\ ret[1].words # <<>>
            /\ IF call.out.raised \/ stripped < 20
               THEN ret[1] = fallback
               ELSE /\ ret[1] # fallback
                    /\ ret[1].words = text.words
                    /\ ret[1].edge = 0
                    /\ ret[1].inner = text.inner

\* The model answered 21 characters, 19 without the whitespace around them, and
\* the fallback was returned.
C19_Witness ==
    /\ Returned_("generate_description")
    /\ ~call.out.raised
    /\ Len(call.out.text.words) = 4
    /\ call.out.text.edge = 2
    /\ call.out.text.inner = 0
    /\ ret[1].words[1] = "Welcome"

\* The table of synonyms of the fallback.
Synonyms ==
    [spacious |-> <<"expansive">>, modern |-> <<"contemporary">>,
     bright |-> <<"sun-filled">>, private |-> <<"secluded">>,
     peaceful |-> <<"tranquil">>, landscaped |-> <<"meticulously", "maintained">>]

\* What the fallback has to show for feature f.
Shown(f) == IF f \in DOMAIN Synonyms THEN Synonyms[f] ELSE <<f>>

\* The words of item stand at position p of ws, a comma after them or not.
PrintedAt(ws, p, item) ==
    /\ p + Len(item) - 1 <= Len(ws)
    /\ \A k \in 1..(Len(item) - 1) : ws[p + k - 1] = item[k]
    /\ ws[p + Len(item) - 1] \in {item[Len(item)], item[Len(item)] \o ","}

\* The items stand in ws in their order, from position start on.
RECURSIVE InOrderFrom(_, _, _)
InOrderFrom(ws, start, items) ==
    \/ items = <<>>
    \/ \E p \in start..Len(ws) :
          /\ PrintedAt(ws, p, items[1])
          /\ InOrderFrom(ws, p + Len(items[1]), Tail(items))

\* C20: for every feature list, the empty one included, the fallback
\* description is not empty and shows, in the order of the list, the synonym of
\* each feature that is a key of the table and each other feature unchanged.
C20_FallbackShowsEveryFeature ==
    Returned_("_generate_fallback_description") =>
        /\ CharLen(ret[1]) > 0
        /\ InOrderFrom(ret[1].words, 1,
                       [i \in 1..Len(call.features) |-> Shown(call.features[i])])

\* A feature that is no key, then one with a two-word synonym, then one with a
\* one-word synonym.
C20_Witness ==
    /\ Returned_("_generate_fallback_description")
    /\ call.features = <<"cozy", "landscaped", "spacious">>
    /\ Len(ret[1].words) > 0

(* ------------------- claims about the attempts ------------------------- *)

\* The steps of an attempt, in the order of the code.
StepOrder == <<"avatar", "voice", "upload", "submit", "poll">>

\* The position of step in StepOrder.
StepIndex(step) == CHOOSE i \in 1..Len(StepOrder) : StepOrder[i] = step

\* The step being left returned no value, or raised: the attempt ends here, with
\* an error entry and no further request.
AttemptEndsInError ==
    /\ Len(log') = Len(log) + 1
    /\ log'[Len(log')].outcome = "error"
    /\ submits' = IF pc = "submit" THEN submits + 1 ELSE submits
    /\ pc' \in {"avatar", "result", "done"}

\* C21: within an attempt of create_video the steps follow each other in the
\* order avatar listing, voice listing, upload, job submission, status polling;
\* every attempt starts again at the avatar listing; a step is reached only with
\* the values of the steps before it, so a job is submitted only with an
\* avatar, a voice and an uploaded URL obtained in that attempt, and a step that
\* yields no value ends the attempt before any later step.
C21_StepOrderWithinAttempt ==
    /\ [](/\ pc \in {"voice", "upload", "submit", "poll"} => Truthy(avatar_id)
          /\ pc \in {"upload", "submit", "poll"} => Truthy(voice_id)
          /\ pc \in {"submit", "poll"} => Truthy(video_url)
          /\ pc = "poll" =>
                /\ Len(payload_sent) = 1
                /\ payload_sent[1].avatar_id = avatar_id
                /\ payload_sent[1].voice_id = voice_id
                /\ payload_sent[1].url = video_url
                /\ submits >= 1)
    /\ [][/\ (pc' \in {"voice", "upload", "submit", "poll"} /\ pc' # pc) =>
                /\ pc \in {"avatar", "voice", "upload", "submit"}
                /\ StepIndex(pc') = StepIndex(pc) + 1
                /\ attempt' = attempt
          /\ attempt' # attempt =>
                /\ attempt' = attempt + 1
                /\ pc' = "avatar"
          /\ (pc' = "avatar" /\ pc # "create") => attempt' = attempt + 1
          /\ submits' # submits =>
                /\ pc = "submit"
                /\ Truthy(avatar_id) /\ Truthy(voice_id) /\ Truthy(video_url)
          /\ (pc = "avatar" /\ ~Truthy(avatar_id')) => AttemptEndsInError
          /\ (pc = "voice" /\ ~Truthy(voice_id')) => AttemptEndsInError
          /\ (pc = "upload" /\ ~Truthy(video_url')) => AttemptEndsInError]_vars

\* The second attempt has gone through its own avatar, voice, upload and
\* submission and is polling its job.
C21_Witness ==
    /\ pc = "poll"
    /\ attempt = 1
    /\ submits = 2
    /\ Len(log) = 1
    /\ log[1].outcome = "timeout"

\* The description of an attempt, as the history keeps it, and its timeout: the
\* next attempt's are the same.
SameAsNext(i) ==
    /\ log[i + 1].words = log[i].words
    /\ log[i + 1].timeout = log[i].timeout

\* C22: the description and the timeout of attempt k+1 differ from those of
\* attempt k only if the poll of attempt k ran out of time; after an attempt
\* that ended with an error (avatar, voice, upload, submission, or a status
\* request that failed) they are the same.
C22_DegradeOnlyOnTimeout ==
    \A i \in 1..(Len(log) - 1) :
        /\ ~SameAsNext(i) => log[i].outcome = "timeout"
        /\ log[i].outcome \in {"error", "poll_error"} => SameAsNext(i)

\* C23: whatever mix of timeouts, failed jobs and errors ends the attempts, a
\* call of create_video makes at most max_retries attempts and sends at most
\* max_retries job-creation requests: every attempt that ends, however it
\* ends, is one iteration of the same for loop.
C23_SharedAttemptBudget ==
    /\ Len(log) <= max_retries
    /\ submits <= max_retries
    /\ Cardinality(JobEntries) <= submits
    /\ pc \in {"avatar", "voice", "upload", "submit", "poll"} =>
          /\ attempt < max_retries
          /\ Len(log) = attempt
          /\ submits <= attempt + (IF pc = "poll" THEN 1 ELSE 0)

\* Three attempts that ended in three ways: a timeout, an error before the
\* submission, a job that failed.
C23_Witness ==
    /\ Returned
    /\ max_retries = 3
    /\ Len(log) = 3
    /\ log[1].outcome = "timeout"
    /\ log[2].outcome = "error"
    /\ log[3].outcome = "failed"
    /\ submits = 2

\* C24: whatever initial_timeout is, values below 180 included, no attempt of
\* a call polls with a timeout greater than the attempt before it.
C24_TimeoutNeverIncreases ==
    \A i \in 1..(Len(log) - 1) : log[i + 1].timeout <= log[i].timeout

(* --------------------- claims about the poll loop ---------------------- *)

\* C25: an iteration of the poll loop that reads a status other than
\* 'completed' and 'failed' sleeps 10 seconds when the status is 'processing'
\* and 5 seconds otherwise, a missing status included, before the next request;
\* an iteration that reads 'completed' or 'failed' returns without sleeping.
C25_AdaptivePollInterval ==
    [][pc = "poll" =>
        IF pc' = "poll"
        THEN /\ elapsed < current_timeout
             /\ status' \in NonTerminal
             /\ elapsed' - elapsed = (IF status' = "processing" THEN 10 ELSE 5)
             /\ UNCHANGED log
        ELSE /\ Len(log') = Len(log) + 1
             /\ elapsed' = 0
             /\ status' = None]_vars

\* A missing status, then 'processing': the loop has slept 5, then 10 seconds.
C25_Witness ==
    /\ pc = "poll"
    /\ status = "processing"
    /\ elapsed = 15

\* ceil(a / b) for b > 0, and 0 when a <= 0.
CeilDiv(a, b) == IF a <= 0 THEN 0 ELSE (a + b - 1) \div b

\* C26: when every status request returns, _wait_for_completion ends, also for
\* a job that never leaves 'processing' or 'pending'; it makes at most
\* ceil(timeout / 5) status requests in its loop and at most one after it, and
\* with timeout <= 0 it makes exactly one request.
C26_PollTerminates ==
    /\ [](/\ checks <= 1
          /\ polls - checks <= CeilDiv(current_timeout, 5)
          /\ (pc = "done" /\ current_timeout <= 0) => polls = 1)
    /\ <>(pc = "done")

\* timeout = 12: three requests in the loop, at 0, 5 and 10 seconds, and the
\* final one.
C26_Witness ==
    /\ pc = "done"
    /\ caller = "poll"
    /\ current_timeout = 12
    /\ polls = 4
    /\ checks = 1

(* ------------------- claims about the description ---------------------- *)

\* C27: whatever the text model does, the description process_room gets from
\* generate_description has at least 20 characters, so no room ends with the
\* error 'Failed to generate description for <room>'.
C27_DescriptionNeverFailsRoom ==
    /\ (caller = "process_room" /\ Truthy(downloaded_path) /\ pc # "describe") =>
          /\ CharLen(description) >= 20
          /\ description.words # <<>>
    /\ room_result # <<>> =>
          \/ room_result[1].status = "success"
          \/ room_result[1].error # "Failed to generate description for " \o RoomName

\* The text model answered 'A bright room.' or nothing, or raised, and
\* process_room goes on with the fallback.
C27_Witness ==
    /\ caller = "process_room"
    /\ pc = "create"
    /\ description.words[1] = "Welcome"
    /\ CharLen(description) >= 20

====
